---- MODULE Spec2Model ----
(***************************************************************************)
(* Serene AI: the App component (src/App.tsx) and the provider service     *)
(* functions (src/components/ChatBubble.tsx, second half).                 *)
(*                                                                         *)
(* The state is the React state and refs of App, the AudioBufferSource     *)
(* nodes created on the output context, and one record per invocation of   *)
(* the async handler handleSendMessage (a "cycle") holding its position    *)
(* and the outcome of each call it awaits.  Each action is one run of an   *)
(* event handler or one continuation of the async handler, up to its next  *)
(* await.  Texts are sequences of one-character strings.                   *)
(***************************************************************************)
EXTENDS Integers, Sequences, FiniteSets

\* Bounds of the model.
MaxCycles  == 2   \* invocations of handleSendMessage that pass its guard
MaxSources == 3   \* source nodes created by handlePlayPause
MaxBytes    == 5  \* length of the byte buffers given to the converter
MaxChannels == 2  \* channel counts given to the converter

VARIABLES
  chat,            \* App.tsx:12  TRUE iff the Chat object is non-null
  aiService,       \* ChatBubble.tsx:35  TRUE iff the service's `ai` is defined
  audioContextRef, \* App.tsx:20  TRUE iff audioContextRef.current is non-null
  messages,        \* App.tsx:13
  userInput,       \* App.tsx:14
  loading,         \* App.tsx:15
  imageUrl,        \* App.tsx:16  0 is '', c > 0 is the data URL of cycle c's image
  audioBuffer,     \* App.tsx:17  0 is null, c > 0 is the buffer decoded in cycle c
  isPlaying,       \* App.tsx:18
  audioSourceRef,  \* App.tsx:21  0 is null, s > 0 is source s
  sources,         \* the source nodes created so far, in creation order
  cycles,          \* the invocations of handleSendMessage, in start order
  contextsCreated, \* App.tsx:34  AudioContext objects constructed so far
  toggleRun,       \* history: 1 after a handlePlayPause run that began with
                   \* isPlaying, 2 after the run directly following it, else 0
  pcmBytes,        \* decodeAudioData: the byte buffer given to the converter
  pcmChannels,     \* decodeAudioData: the channel count given to it
  pcmOut           \* decodeAudioData: its result, NoResult before the call

pcmVars == << pcmBytes, pcmChannels, pcmOut >>

vars == << chat, aiService, audioContextRef, messages, userInput, loading,
           imageUrl, audioBuffer, isPlaying, audioSourceRef, sources, cycles,
           contextsCreated, toggleRun, pcmVars >>

appVars == << chat, aiService, audioContextRef, messages, userInput, loading,
              imageUrl, audioBuffer, isPlaying, audioSourceRef, sources, cycles,
              contextsCreated >>

----------------------------------------------------------------------------
\* Texts.

WelcomeText == << "W" >>
ErrorText   == << "E" >>
DigitStr    == << "1", "2", "3", "4", "5" >>
ScriptText(c) == << "T", DigitStr[c] >>

\* What the user can have typed into the input field.
Inputs == { << >>, << " " >>, << " ", "a" >> }

RECURSIVE TrimStart(_)
TrimStart(s) ==
  IF s = << >> THEN s
  ELSE IF Head(s) = " " THEN TrimStart(Tail(s)) ELSE s

RECURSIVE TrimEnd(_)
TrimEnd(s) ==
  IF s = << >> THEN s
  ELSE IF s[Len(s)] = " " THEN TrimEnd(SubSeq(s, 1, Len(s) - 1)) ELSE s

\* String.prototype.trim
Trim(s) == TrimEnd(TrimStart(s))

Message(r, t, c) == [ role |-> r, content |-> t, cycle |-> c ]

----------------------------------------------------------------------------
\* Loading flags.

NoLoading  == [ script |-> FALSE, image |-> FALSE, audio |-> FALSE ]
AllLoading == [ script |-> TRUE,  image |-> TRUE,  audio |-> TRUE ]

\* Object.values(loading).some(v => v)
isGenerating == loading.script \/ loading.image \/ loading.audio

----------------------------------------------------------------------------
\* Provider calls.  An outcome is what the provider does with a call; the
\* service functions turn it into the value the handler sees.

Outcomes == { "ok", "empty", "reject" }

\* generateImagePrompt, generateMeditationImage, generateMeditationAudio:
\* null without `ai`, null on a caught rejection, a falsy value on an empty
\* response, the payload otherwise.
ServiceResult(ai, o) ==
  IF ~ai THEN "null"
  ELSE IF o = "ok" THEN "ok" ELSE "null"

\* The outcomes a service call can have: without `ai` it returns before
\* calling the provider.
ServiceOutcomes == IF aiService THEN Outcomes ELSE { "nocall" }

\* NewCycle with the audio call made together with the script call.
NewCycle_EagerAudio(in) ==
  [ pc |-> "awaitScript", input |-> in, script |-> "pending",
    prompt |-> "none", image |-> "none", audio |-> "pending", decode |-> "none" ]

\* App.tsx:52-64: the locals of a handleSendMessage invocation that has
\* passed the guard and awaits the script call.
NewCycle(in) ==
  [ pc |-> "awaitScript", input |-> in, script |-> "pending",
    prompt |-> "none", image |-> "none", audio |-> "none", decode |-> "none" ]

\* The record of an invocation that has returned and has been followed by a
\* later one: its locals are gone, only its messages remain.
Returned ==
  [ pc |-> "done", input |-> << >>, script |-> "none",
    prompt |-> "none", image |-> "none", audio |-> "none", decode |-> "none" ]

Released(cyc) ==
  [ c \in DOMAIN cyc |-> IF cyc[c].pc = "done" THEN Returned ELSE cyc[c] ]

InFlight(c) == cycles[c].pc # "done"
NumInFlight == Cardinality({ c \in 1..Len(cycles) : InFlight(c) })

----------------------------------------------------------------------------
\* Source nodes, in creation order.  "playing": started and emitting
\* audio.  "finished": the end of the buffer was reached, nothing is
\* emitted, the ended event is queued.  "stopped": stop() was called,
\* nothing is emitted, the ended event is queued.  "ended": the onended
\* callback has run and the node has let go of its buffer.  Each node
\* keeps the context it was created on.

Nodes == 1..Len(sources)
EndedSource(x) == [ state |-> "ended", buffer |-> 0, context |-> x ]

Emitting(s) == sources[s].state = "playing"
NumEmitting == Cardinality({ s \in Nodes : Emitting(s) })

\* A playback session lasts from start() until stop() or until its
\* completion callback has run.
SessionActive(s) == sources[s].state \in { "playing", "finished" }
NumActive == Cardinality({ s \in Nodes : SessionActive(s) })

\* App.tsx:102: audioSourceRef.current?.stop()
Stopped(srcs, s) ==
  IF s = 0 \/ srcs[s].state \notin { "playing", "finished" } THEN srcs
  ELSE [ srcs EXCEPT ![s].state = "stopped" ]

----------------------------------------------------------------------------
\* The PCM-to-AudioBuffer converter decodeAudioData (utils/audioUtils),
\* called at App.tsx:86.  A sample is the fraction num / den.

NoResult == [ done |-> FALSE, error |-> FALSE, channels |-> << >> ]

\* ToInt16 without the sign extension.
ToInt16_Unsigned(lo, hi) == lo + hi * 256

\* The signed 16-bit little-endian value of the byte pair lo, hi.
ToInt16(lo, hi) ==
  LET v == lo + hi * 256
  IN  IF v >= 32768 THEN v - 65536 ELSE v

\* The k-th 16-bit value of the buffer; a trailing odd byte belongs to none.
Int16At(bytes, k) == ToInt16(bytes[2 * k - 1], bytes[2 * k])

Normalised(n) == [ num |-> n, den |-> 32768 ]

\* The complete frames of the buffer: truncating division.
FrameCount(bytes, c) == (Len(bytes) \div 2) \div c

\* Channel ch of the interleaved samples.
ChannelData(bytes, c, ch) ==
  [ i \in 1..FrameCount(bytes, c) |-> Normalised(Int16At(bytes, (i - 1) * c + ch)) ]

\* DecodeAudioData failing on a buffer that is no whole number of frames.
DecodeAudioData_Strict(bytes, c) ==
  IF Len(bytes) % (2 * c) # 0
  THEN [ done |-> TRUE, error |-> TRUE, channels |-> << >> ]
  ELSE [ done |-> TRUE, error |-> FALSE,
         channels |-> [ ch \in 1..c |-> ChannelData(bytes, c, ch) ] ]

DecodeAudioData(bytes, c) ==
  [ done |-> TRUE, error |-> FALSE,
    channels |-> [ ch \in 1..c |-> ChannelData(bytes, c, ch) ] ]

----------------------------------------------------------------------------
Init ==
  /\ chat \in BOOLEAN
  /\ aiService \in BOOLEAN
  /\ audioContextRef \in BOOLEAN
  /\ audioContextRef => chat
  /\ messages = << Message("model", WelcomeText, 0) >>
  /\ userInput = << >>
  /\ loading = NoLoading
  /\ imageUrl = 0
  /\ audioBuffer = 0
  /\ isPlaying = FALSE
  /\ audioSourceRef = 0
  /\ sources = << >>
  /\ cycles = << >>
  /\ contextsCreated = IF audioContextRef THEN 1 ELSE 0
  /\ toggleRun = 0
  /\ pcmBytes = << >>
  /\ pcmChannels = 1
  /\ pcmOut = NoResult

\* onChange of the input field, which is disabled while generating.
SetUserInput(v) ==
  /\ ~isGenerating
  /\ userInput' = v
  /\ toggleRun' = 0
  /\ UNCHANGED pcmVars
  /\ UNCHANGED << chat, aiService, audioContextRef, contextsCreated, messages, loading, imageUrl,
                  audioBuffer, isPlaying, audioSourceRef, sources, cycles >>

\* App.tsx:53, the guard of handleSendMessage.
SendGuard == Trim(userInput) # << >> /\ chat /\ ~isGenerating

\* LoadingAfterScript clearing every flag, LoadingAfterError clearing none.
LoadingAfterScript_ClearsAll(l) == NoLoading
LoadingAfterError_ClearsNone(l) == l

\* App.tsx:68, 81, 89, 94: the updates of the loading flags.
LoadingAfterScript(l) == [ l EXCEPT !.script = FALSE ]
LoadingAfterImage(l)  == [ l EXCEPT !.image = FALSE ]
\* LoadingAfterAudio leaving the audio flag set.
LoadingAfterAudio_Keeps(l) == l

LoadingAfterAudio(l)  == [ l EXCEPT !.audio = FALSE ]
LoadingAfterError(l)  == NoLoading

\* WithUserMessage showing the trimmed input.
WithUserMessage_Trimmed(msgs, in, c) == Append(msgs, Message("user", Trim(in), c))

\* WithModelMessage built on the list the handler captured before the user
\* message was added; WithErrorMessage adding nothing.
WithModelMessage_Stale(msgs, t, c) ==
  Append(SubSeq(msgs, 1, Len(msgs) - 1), Message("model", t, c))
WithErrorMessage_Silent(msgs, c) == msgs

\* App.tsx:56, 67, 93: the updates of the message list.
WithUserMessage(msgs, in, c)  == Append(msgs, Message("user", in, c))
WithModelMessage(msgs, t, c)  == Append(msgs, Message("model", t, c))
WithErrorMessage(msgs, c)     == Append(msgs, Message("model", ErrorText, c))

\* AudioBufferOnSend keeping the buffer of the cycle before.
AudioBufferOnSend_Keeps(b) == b

\* App.tsx:59: setAudioBuffer(null)
AudioBufferOnSend(b) == 0

\* ContextsAfterSend with a new AudioContext constructed for each message.
ContextsAfterSend_Recreates(n) == n + 1

\* App.tsx:52-96: handleSendMessage constructs no AudioContext; the only
\* construction is in the initialisation effect (App.tsx:34).
ContextsAfterSend(n) == n

\* App.tsx:52-64: handleSendMessage up to its first await.  A run the guard
\* rejects returns at once.
HandleSendMessage ==
  /\ SendGuard => Len(cycles) < MaxCycles
  /\ IF SendGuard
     THEN /\ messages' = WithUserMessage(messages, userInput, Len(cycles) + 1)
          /\ userInput' = << >>
          /\ loading' = AllLoading
          /\ audioBuffer' = AudioBufferOnSend(audioBuffer)
          /\ isPlaying' = FALSE
          /\ cycles' = Append(Released(cycles), NewCycle(userInput))
          /\ contextsCreated' = ContextsAfterSend(contextsCreated)
          /\ UNCHANGED << chat, aiService, audioContextRef, imageUrl,
                          audioSourceRef, sources >>
     ELSE UNCHANGED appVars
  /\ toggleRun' = 0
  /\ UNCHANGED pcmVars

\* App.tsx:90-95: the catch block, ending cycle c.
Catch(c, cyc) ==
  /\ messages' = WithErrorMessage(messages, c)
  /\ loading' = LoadingAfterError(loading)
  /\ cycles' = [ cyc EXCEPT ![c].pc = "done" ]

\* App.tsx:64-72: chat.sendMessage settles with outcome o; on success the
\* script message is shown and the image-prompt and audio calls are made.
ScriptSettled(c, o) ==
  /\ cycles[c].pc = "awaitScript"
  /\ IF o = "reject"
     THEN Catch(c, [ cycles EXCEPT ![c].script = o ])
     ELSE /\ messages' = WithModelMessage(messages,
                            IF o = "ok" THEN ScriptText(c) ELSE << >>, c)
          /\ loading' = LoadingAfterScript(loading)
          /\ cycles' = [ cycles EXCEPT ![c].script = o,
                                       ![c].prompt = "pending",
                                       ![c].audio = "pending",
                                       ![c].pc = "awaitImagePrompt" ]
  /\ toggleRun' = 0
  /\ UNCHANGED pcmVars
  /\ UNCHANGED << chat, aiService, audioContextRef, contextsCreated, userInput, imageUrl,
                  audioBuffer, isPlaying, audioSourceRef, sources >>

\* App.tsx:74-81: the image-prompt promise settles; a truthy prompt makes
\* the image call, anything else ends the image step.
ImagePromptSettled(c, o) ==
  /\ cycles[c].pc = "awaitImagePrompt"
  /\ IF ServiceResult(aiService, o) = "ok"
     THEN /\ cycles' = [ cycles EXCEPT ![c].prompt = "ok",
                                       ![c].image = "pending",
                                       ![c].pc = "awaitImage" ]
          /\ UNCHANGED loading
     ELSE /\ cycles' = [ cycles EXCEPT ![c].prompt = "null",
                                       ![c].pc = "awaitAudio" ]
          /\ loading' = LoadingAfterImage(loading)
  /\ toggleRun' = 0
  /\ UNCHANGED pcmVars
  /\ UNCHANGED << chat, aiService, audioContextRef, contextsCreated, messages, userInput,
                  imageUrl, audioBuffer, isPlaying, audioSourceRef, sources >>

\* ImageUrlAfter without the test of imageData.
ImageUrlAfter_Unchecked(url, r, c) == c

\* App.tsx:77-79: the image URL is set only from truthy image data.
ImageUrlAfter(url, r, c) == IF r = "ok" THEN c ELSE url

\* App.tsx:76-81: the image promise settles.
ImageSettled(c, o) ==
  /\ cycles[c].pc = "awaitImage"
  /\ imageUrl' = ImageUrlAfter(imageUrl, ServiceResult(aiService, o), c)
  /\ loading' = LoadingAfterImage(loading)
  /\ cycles' = [ cycles EXCEPT ![c].image = ServiceResult(aiService, o),
                               ![c].pc = "awaitAudio" ]
  /\ toggleRun' = 0
  /\ UNCHANGED pcmVars
  /\ UNCHANGED << chat, aiService, audioContextRef, contextsCreated, messages, userInput,
                  audioBuffer, isPlaying, audioSourceRef, sources >>

\* ChatBubble.tsx:88-110: the audio promise made at App.tsx:72 settles,
\* wherever the handler is.
AudioSettled(c, o) ==
  /\ cycles[c].audio = "pending"
  /\ cycles' = [ cycles EXCEPT ![c].audio = ServiceResult(aiService, o) ]
  /\ toggleRun' = 0
  /\ UNCHANGED pcmVars
  /\ UNCHANGED << chat, aiService, audioContextRef, contextsCreated, messages, userInput, loading,
                  imageUrl, audioBuffer, isPlaying, audioSourceRef, sources >>

\* App.tsx:83-89: the handler resumes from `await audioPromise`; with audio
\* data and a context it runs decode (d says whether that throws) and
\* awaits decodeAudioData, otherwise the audio step ends.
AudioAwaited(c, d) ==
  /\ cycles[c].pc = "awaitAudio"
  /\ cycles[c].audio \notin { "none", "pending" }
  /\ IF cycles[c].audio = "ok" /\ audioContextRef
     THEN IF d = "throw"
          THEN Catch(c, [ cycles EXCEPT ![c].decode = "threw" ])
          ELSE /\ cycles' = [ cycles EXCEPT ![c].decode = "pending",
                                            ![c].pc = "awaitDecode" ]
               /\ UNCHANGED << messages, loading >>
     ELSE /\ loading' = LoadingAfterAudio(loading)
          /\ cycles' = [ cycles EXCEPT ![c].pc = "done" ]
          /\ UNCHANGED messages
  /\ toggleRun' = 0
  /\ UNCHANGED pcmVars
  /\ UNCHANGED << chat, aiService, audioContextRef, contextsCreated, userInput, imageUrl,
                  audioBuffer, isPlaying, audioSourceRef, sources >>

\* App.tsx:86-89: decodeAudioData settles; d says whether it threw.
DecodeSettled(c, d) ==
  /\ cycles[c].pc = "awaitDecode"
  /\ IF d = "throw"
     THEN /\ Catch(c, [ cycles EXCEPT ![c].decode = "threw" ])
          /\ UNCHANGED audioBuffer
     ELSE /\ audioBuffer' = c
          /\ loading' = LoadingAfterAudio(loading)
          /\ cycles' = [ cycles EXCEPT ![c].decode = "ok", ![c].pc = "done" ]
          /\ UNCHANGED messages
  /\ toggleRun' = 0
  /\ UNCHANGED pcmVars
  /\ UNCHANGED << chat, aiService, audioContextRef, contextsCreated, userInput, imageUrl,
                  isPlaying, audioSourceRef, sources >>

\* Started with the source given the first cycle's buffer.
Started_FirstBuffer(srcs, b, x) ==
  Append(srcs, [ state |-> "playing", buffer |-> 1, context |-> x ])

\* App.tsx:105-109: a new source created on context x, playing buffer b.
Started(srcs, b, x) ==
  Append(srcs, [ state |-> "playing", buffer |-> b, context |-> x ])

\* ControlVisible with the button rendered whatever the state.
ControlVisible_Always == TRUE

\* App.tsx:154: the play/pause button is rendered iff audioBuffer is truthy.
ControlVisible == audioBuffer # 0

\* App.tsx:167-179: the image panel: 0 for the spinner shown while the
\* image loads, -1 for the placeholder, c > 0 for the image of cycle c.
ImagePanel == IF loading.image THEN 0 ELSE IF imageUrl # 0 THEN imageUrl ELSE -1

\* App.tsx:98-113: handlePlayPause, the onClick of the play/pause button.
HandlePlayPause ==
  /\ ControlVisible
  /\ ~isPlaying => Len(sources) < MaxSources
  /\ IF ~audioContextRef \/ audioBuffer = 0
     THEN UNCHANGED << isPlaying, audioSourceRef, sources >>
     ELSE IF isPlaying
          THEN /\ sources' = Stopped(sources, audioSourceRef)
               /\ isPlaying' = FALSE
               /\ UNCHANGED audioSourceRef
          ELSE /\ sources' = Started(sources, audioBuffer, contextsCreated)
               /\ audioSourceRef' = Len(sources) + 1
               /\ isPlaying' = TRUE
  /\ toggleRun' = IF toggleRun = 1 THEN 2 ELSE IF isPlaying THEN 1 ELSE 0
  /\ UNCHANGED pcmVars
  /\ UNCHANGED << chat, aiService, audioContextRef, contextsCreated, messages, userInput, loading,
                  imageUrl, audioBuffer, cycles >>

\* Source s reaches the end of its buffer: it stops emitting and its ended
\* event is queued.
NaturalCompletion(s) ==
  /\ sources[s].state = "playing"
  /\ sources' = [ sources EXCEPT ![s].state = "finished" ]
  /\ toggleRun' = 0
  /\ UNCHANGED pcmVars
  /\ UNCHANGED << chat, aiService, audioContextRef, contextsCreated, messages, userInput, loading,
                  imageUrl, audioBuffer, isPlaying, audioSourceRef, cycles >>

\* App.tsx:108: the onended callback of source s, after stop() or after
\* the end of its buffer.
OnEnded(s) ==
  /\ sources[s].state \in { "finished", "stopped" }
  /\ sources' = [ sources EXCEPT ![s] = EndedSource(sources[s].context) ]
  /\ isPlaying' = FALSE
  /\ toggleRun' = 0
  /\ UNCHANGED pcmVars
  /\ UNCHANGED << chat, aiService, audioContextRef, contextsCreated, messages, userInput, loading,
                  imageUrl, audioBuffer, audioSourceRef, cycles >>

Next ==
  \/ \E v \in Inputs : SetUserInput(v)
  \/ HandleSendMessage
  \/ \E c \in 1..Len(cycles) : \E o \in Outcomes : ScriptSettled(c, o)
  \/ \E c \in 1..Len(cycles) : \E o \in ServiceOutcomes : ImagePromptSettled(c, o)
  \/ \E c \in 1..Len(cycles) : \E o \in ServiceOutcomes : ImageSettled(c, o)
  \/ \E c \in 1..Len(cycles) : \E o \in ServiceOutcomes : AudioSettled(c, o)
  \/ \E c \in 1..Len(cycles) : \E d \in { "ok", "throw" } : AudioAwaited(c, d)
  \/ \E c \in 1..Len(cycles) : \E d \in { "ok", "throw" } : DecodeSettled(c, d)
  \/ HandlePlayPause
  \/ \E s \in Nodes : NaturalCompletion(s)
  \/ \E s \in Nodes : OnEnded(s)

Spec == Init /\ [][Next]_vars

\* Every provider call and the decode step settle, and the handler resumes
\* from a settled await: promise reactions are run by the event loop.
Fairness ==
  /\ WF_vars(\E c \in 1..Len(cycles) : \E o \in Outcomes : ScriptSettled(c, o))
  /\ WF_vars(\E c \in 1..Len(cycles) : \E o \in ServiceOutcomes : ImagePromptSettled(c, o))
  /\ WF_vars(\E c \in 1..Len(cycles) : \E o \in ServiceOutcomes : ImageSettled(c, o))
  /\ WF_vars(\E c \in 1..Len(cycles) : \E o \in ServiceOutcomes : AudioSettled(c, o))
  /\ WF_vars(\E c \in 1..Len(cycles) : \E d \in { "ok", "throw" } : AudioAwaited(c, d))
  /\ WF_vars(\E c \in 1..Len(cycles) : \E d \in { "ok", "throw" } : DecodeSettled(c, d))

\* The steps of the generation cycles.  The player's steps (HandlePlayPause,
\* NaturalCompletion, OnEnded) neither read nor write cycles and loading,
\* and no step below reads the player's state.
GenerationNext ==
  \/ \E v \in Inputs : SetUserInput(v)
  \/ HandleSendMessage
  \/ \E c \in 1..Len(cycles) : \E o \in Outcomes : ScriptSettled(c, o)
  \/ \E c \in 1..Len(cycles) : \E o \in ServiceOutcomes : ImagePromptSettled(c, o)
  \/ \E c \in 1..Len(cycles) : \E o \in ServiceOutcomes : ImageSettled(c, o)
  \/ \E c \in 1..Len(cycles) : \E o \in ServiceOutcomes : AudioSettled(c, o)
  \/ \E c \in 1..Len(cycles) : \E d \in { "ok", "throw" } : AudioAwaited(c, d)
  \/ \E c \in 1..Len(cycles) : \E d \in { "ok", "throw" } : DecodeSettled(c, d)

GenerationSpec == Init /\ [][GenerationNext]_vars /\ Fairness

----------------------------------------------------------------------------
\* The converter on its own: the inputs are drawn at the start and the one
\* step is the call.

\* App state while the converter runs: a cycle's decode step, with a chat
\* and a context (App.tsx:84).
ConverterContext ==
  /\ chat = TRUE
  /\ aiService = TRUE
  /\ audioContextRef = TRUE
  /\ messages = << Message("model", WelcomeText, 0) >>
  /\ userInput = << >>
  /\ loading = NoLoading
  /\ imageUrl = 0
  /\ audioBuffer = 0
  /\ isPlaying = FALSE
  /\ audioSourceRef = 0
  /\ sources = << >>
  /\ cycles = << >>
  /\ contextsCreated = 1
  /\ toggleRun = 0
  /\ pcmOut = NoResult

SampleBytes == { 0, 127, 128, 255 }
Byte == 0..255

RECURSIVE SeqsUpTo(_, _)
SeqsUpTo(S, n) ==
  IF n = 0 THEN { << >> }
  ELSE LET shorter == SeqsUpTo(S, n - 1)
       IN  shorter \cup { Append(q, b) : q \in shorter, b \in S }

DecodeAudioDataCall ==
  /\ ~pcmOut.done
  /\ pcmOut' = DecodeAudioData(pcmBytes, pcmChannels)
  /\ UNCHANGED << appVars, toggleRun, pcmBytes, pcmChannels >>

PcmNext == DecodeAudioDataCall

\* Buffers of every length up to MaxBytes, for 1..MaxChannels channels.
PcmInit ==
  /\ ConverterContext
  /\ pcmBytes \in SeqsUpTo(SampleBytes, MaxBytes)
  /\ pcmChannels \in 1..MaxChannels

SpecPcm == PcmInit /\ [][PcmNext]_vars

\* Every byte pair, as one mono sample.
SampleInit ==
  /\ ConverterContext
  /\ pcmBytes \in { << lo, hi >> : lo \in Byte, hi \in Byte }
  /\ pcmChannels = 1

SpecSample == SampleInit /\ [][PcmNext]_vars

----------------------------------------------------------------------------
\* C1: at most one playback source emits audio on the output context at any
\* time; a source is never started while an earlier one still emits.
C1_AtMostOneEmitting == NumEmitting <= 1

\* C2: the playback state (isPlaying) is Idle at first; it goes from Idle to
\* Playing only by a play (a source is started), and from Playing to Idle
\* only by a stop of, or the completion callback of, the source held in
\* audioSourceRef; nothing else, a send in particular, changes it.
C2_PlaybackStateMachine ==
  /\ ~isPlaying
  /\ [][ /\ (~isPlaying /\ isPlaying') =>
              /\ Len(sources') = Len(sources) + 1
              /\ sources'[Len(sources')].state = "playing"
         /\ (isPlaying /\ ~isPlaying') =>
              /\ audioSourceRef # 0
              /\ sources[audioSourceRef].state \in { "playing", "finished", "stopped" }
              /\ sources'[audioSourceRef].state \in { "stopped", "ended" }
              /\ sources'[audioSourceRef] # sources[audioSourceRef] ]_vars

\* C3: every run of the play/pause toggle does exactly one of stop and play:
\* with a session active it stops that session and starts nothing, with
\* none active it starts one source playing the current AudioBuffer.
C3_ToggleExactlyOne ==
  [][ HandlePlayPause =>
        IF NumActive > 0
        THEN /\ Len(sources') = Len(sources)
             /\ \A s \in Nodes : SessionActive(s) => sources'[s].state = "stopped"
        ELSE /\ Len(sources') = Len(sources) + 1
             /\ sources'[Len(sources')].state = "playing"
             /\ sources'[Len(sources')].buffer = audioBuffer
             /\ \A s \in Nodes : sources'[s] = sources[s] ]_vars

\* C10: from Playing, the first of two successive toggles leads to Idle and
\* the second to Playing, and after neither do two sources emit at once.
C10_TwoToggles ==
  /\ toggleRun = 1 => ~isPlaying /\ NumEmitting <= 1
  /\ toggleRun = 2 => isPlaying /\ NumEmitting <= 1

----------------------------------------------------------------------------
IsPrefix(a, b) == Len(a) <= Len(b) /\ SubSeq(b, 1, Len(a)) = a

Cycles == 1..Len(cycles)

\* C4: at most one cycle is in flight, and it keeps a loading flag set;
\* while one is in flight no step starts another, and a run of the send
\* handler changes nothing: no message, no call, the cycle left as it is.
C4_SingleCycleInFlight ==
  [][ /\ NumInFlight' <= 1
      /\ NumInFlight' = 1 => isGenerating'
      /\ NumInFlight >= 1 =>
           /\ Len(cycles') = Len(cycles)
           /\ HandleSendMessage => UNCHANGED appVars ]_vars

C4_Witness ==
  /\ Len(cycles) = 2
  /\ cycles[2].pc = "awaitAudio"
  /\ cycles[2].audio = "pending"
  /\ ~SendGuard
  /\ ENABLED HandleSendMessage

\* A step of cycle c failed: the script call rejected, a service call gave
\* null, or decoding threw.
Failed(c) ==
  \/ cycles[c].script = "reject"
  \/ cycles[c].prompt = "null"
  \/ cycles[c].image = "null"
  \/ cycles[c].audio = "null"
  \/ cycles[c].decode = "threw"

\* C5: once a cycle in which some step failed has finished, the three
\* loading flags are all false.
C5_FlagsResetOnFailure ==
  \A c \in Cycles : cycles[c].pc = "done" /\ Failed(c) => loading = NoLoading

C5_Witness ==
  \E c \in Cycles :
    cycles[c].pc = "done" /\ cycles[c].decode = "threw" /\ loading = NoLoading

ErrorCount(c) ==
  Cardinality({ i \in 1..Len(messages) :
                  messages[i] = Message("model", ErrorText, c) })

\* C6 as claimed: a finished cycle whose script, image or audio call failed
\* or gave an empty/null result has exactly one error message.
C6_OneErrorPerFailedCall ==
  \A c \in Cycles :
    ( /\ cycles[c].pc = "done"
      /\ \/ cycles[c].script \in { "reject", "empty" }
         \/ cycles[c].image = "null"
         \/ cycles[c].audio = "null" )
    => ErrorCount(c) = 1

\* C6 as amended: a cycle has exactly one error message if its script call
\* rejected or decoding its audio threw, and none otherwise: an empty
\* script and a failed or null image-prompt, image or audio call add none.
C6_ErrorOnlyOnThrow ==
  \A c \in Cycles :
    cycles[c].script # "none" =>
      ErrorCount(c) =
        IF cycles[c].script = "reject" \/ cycles[c].decode = "threw" THEN 1 ELSE 0

C6_Witness ==
  \E c \in Cycles :
    cycles[c].pc = "done" /\ cycles[c].script = "reject" /\ ErrorCount(c) = 1

IsUserMessage(m, c)   == m.role = "user" /\ m.cycle = c
IsScriptMessage(m, c) == m.role = "model" /\ m.cycle = c /\ m.content # ErrorText

\* C7: every step leaves the earlier messages as a prefix; a cycle's user
\* message is in the list once its script call is issued; its script
\* message is there only after that call has resolved, directly after its
\* user message.
C7_AppendOnlyOrdered ==
  [][ /\ IsPrefix(messages, messages')
      /\ \A c \in 1..Len(cycles') :
           \E i \in 1..Len(messages') : IsUserMessage(messages'[i], c)
      /\ \A i \in 1..Len(messages') : \A c \in 1..Len(cycles') :
           IsScriptMessage(messages'[i], c) =>
             /\ cycles'[c].pc # "awaitScript"
             /\ i > 1
             /\ IsUserMessage(messages'[i - 1], c) ]_vars

C7_Witness ==
  /\ Len(messages) >= 5
  /\ IsUserMessage(messages[4], 2)
  /\ IsScriptMessage(messages[5], 2)

\* C8: the image-prompt and audio calls are made only after the script call
\* has resolved, the image call only after a non-null prompt; after a
\* rejected script call none of the three is made.
C8_CallOrder ==
  \A c \in Cycles :
    /\ (cycles[c].prompt # "none" \/ cycles[c].audio # "none")
         => cycles[c].script \in { "ok", "empty" }
    /\ cycles[c].image # "none" => cycles[c].prompt = "ok"
    /\ cycles[c].script = "reject"
         => /\ cycles[c].prompt = "none"
            /\ cycles[c].image = "none"
            /\ cycles[c].audio = "none"

C8_Witness ==
  \E c \in Cycles :
    /\ cycles[c].image = "pending"
    /\ cycles[c].prompt = "ok"
    /\ cycles[c].audio # "pending"

\* C9: a new AudioBuffer arriving while Idle leaves the state Idle and
\* starts no source; the next play starts its source on that buffer.
C9_NewBufferWhileIdle ==
  [][ /\ (audioBuffer' # audioBuffer /\ audioBuffer' # 0 /\ ~isPlaying) =>
           /\ ~isPlaying'
           /\ sources' = sources
           /\ audioSourceRef' = audioSourceRef
      /\ Len(sources') > Len(sources) =>
           /\ sources'[Len(sources')].state = "playing"
           /\ sources'[Len(sources')].buffer = audioBuffer ]_vars

C9_Witness ==
  /\ audioBuffer = 2
  /\ ~isPlaying
  /\ \E s \in Nodes : sources[s].buffer = 1

----------------------------------------------------------------------------
\* C11: in a cycle whose script call succeeded and whose image-prompt or
\* image call failed, the script message is in the list and the image panel
\* shows no image, also when an earlier cycle produced one.
C11_ImageOmitted ==
  \A c \in Cycles :
    ( /\ cycles[c].script \in { "ok", "empty" }
      /\ cycles[c].prompt = "null" \/ cycles[c].image = "null" )
    => /\ \E i \in 1..Len(messages) : IsScriptMessage(messages[i], c)
       /\ ImagePanel = -1

\* C11 as amended: in such a cycle the script message is in the list and no
\* image is set for the cycle: the panel shows the placeholder, or the image
\* of an earlier cycle when one was produced.
C11_NoImageForCycle ==
  \A c \in Cycles :
    ( /\ cycles[c].script \in { "ok", "empty" }
      /\ cycles[c].prompt = "null" \/ cycles[c].image = "null" )
    => /\ \E i \in 1..Len(messages) : IsScriptMessage(messages[i], c)
       /\ imageUrl # c
       /\ ImagePanel = IF imageUrl = 0 THEN -1 ELSE imageUrl
       /\ c = 1 => ImagePanel = -1

C11_Witness ==
  /\ Len(cycles) = 2
  /\ cycles[2].image = "null"
  /\ ImagePanel = 1

\* C12: the play/pause control is visible exactly when the audio of the
\* latest cycle has been decoded: never before the first decode, and not
\* from a send until that cycle's decode.
C12_ControlVisibility ==
  /\ ControlVisible <=>
       (Len(cycles) >= 1 /\ cycles[Len(cycles)].decode = "ok"
                         /\ audioBuffer = Len(cycles))
  /\ (Len(cycles) = 0 \/ InFlight(Len(cycles))) => ~ControlVisible

C12_Witness ==
  /\ Len(cycles) = 2
  /\ cycles[2].pc = "awaitDecode"
  /\ ~ControlVisible
  /\ \E s \in Nodes : sources[s].buffer = 1

\* The first cycle has run to its end with every call and the decode
\* succeeding.
FirstCycleSucceeded ==
  /\ Len(cycles) = 1
  /\ cycles[1] = [ pc |-> "done", input |-> cycles[1].input, script |-> "ok",
                   prompt |-> "ok", image |-> "ok", audio |-> "ok",
                   decode |-> "ok" ]

\* C13: after a first cycle in which every call succeeds the messages are
\* the welcome, the user's request and the script, the image is set from the
\* cycle's image data, no flag is loading and the control is visible; a
\* press of the control from Idle starts the cycle's audio and gives Playing.
C13_EndToEnd ==
  [][ /\ FirstCycleSucceeded' =>
           /\ messages' = << Message("model", WelcomeText, 0),
                             Message("user", cycles'[1].input, 1),
                             Message("model", ScriptText(1), 1) >>
           /\ Trim(cycles'[1].input) # << >>
           /\ imageUrl' = 1
           /\ ImagePanel' = 1
           /\ loading' = NoLoading
           /\ ControlVisible'
      /\ (FirstCycleSucceeded /\ ~isPlaying /\ HandlePlayPause) =>
           /\ isPlaying'
           /\ sources'[audioSourceRef'].state = "playing"
           /\ sources'[audioSourceRef'].buffer = 1 ]_vars

C13_Witness ==
  /\ FirstCycleSucceeded
  /\ isPlaying
  /\ Len(sources) = 1
  /\ sources[1].state = "playing"

----------------------------------------------------------------------------
\* C15: for a buffer of length L and c >= 1 channels the converter gives,
\* without an error, c channels of exactly floor(L / (2c)) frames: none
\* for an empty buffer, n for a mono buffer of length 2n + 1.
C15_FrameCount ==
  pcmOut.done =>
    /\ ~pcmOut.error
    /\ Len(pcmOut.channels) = pcmChannels
    /\ \A ch \in 1..pcmChannels :
         /\ Len(pcmOut.channels[ch]) = Len(pcmBytes) \div (2 * pcmChannels)
         /\ \A n \in 0..MaxBytes :
              (pcmChannels = 1 /\ Len(pcmBytes) = 2 * n + 1)
                => Len(pcmOut.channels[ch]) = n
    /\ Len(pcmBytes) = 0 => \A ch \in 1..pcmChannels : pcmOut.channels[ch] = << >>

C15_Witness ==
  /\ pcmOut.done
  /\ pcmChannels = 1
  /\ Len(pcmBytes) = 3
  /\ Len(pcmOut.channels[1]) = 1

\* C16: for every byte pair lo, hi the sample is the two's-complement value
\* of lo + 256 hi, in -32768..32767, over 32768: -1 exactly for 0x00 0x80,
\* 32767/32768 for 0xFF 0x7F, and always in [-1, 1).
C16_SampleValue ==
  pcmOut.done =>
    LET lo == pcmBytes[1]
        hi == pcmBytes[2]
        s  == pcmOut.channels[1][1]
    IN  /\ s.den = 32768
        /\ s.num \in -32768..32767
        /\ (s.num - (lo + hi * 256)) % 65536 = 0
        /\ -s.den <= s.num /\ s.num < s.den
        /\ (lo = 0 /\ hi = 128) => s.num = -s.den
        /\ (lo = 255 /\ hi = 127) => s.num = 32767

C16_Witness ==
  /\ pcmOut.done
  /\ pcmBytes = << 0, 128 >>
  /\ pcmOut.channels[1][1] = [ num |-> -32768, den |-> 32768 ]

----------------------------------------------------------------------------
\* C17: in every reachable state isPlaying is true exactly when the source
\* held in audioSourceRef is in a playback session (emitting audio, or at
\* the end of its buffer with its completion callback still to run): no
\* callback of an earlier source and no send clears the flag while the
\* held source plays.
C17_FlagAgreesWithOutput ==
  isPlaying <=> (audioSourceRef # 0 /\ SessionActive(audioSourceRef))

----------------------------------------------------------------------------
\* C18: every started cycle eventually has returned with the three loading
\* flags false, whatever the outcomes of its calls and the order in which
\* the image and audio calls settle.
C18_CycleTerminates ==
  \A c \in 1..MaxCycles :
    (Len(cycles) >= c /\ InFlight(c))
      ~> (Len(cycles) >= c /\ ~InFlight(c) /\ loading = NoLoading)

C18_Witness ==
  /\ Len(cycles) = 1
  /\ ~InFlight(1)
  /\ loading = NoLoading
  /\ cycles[1].image # "ok"
  /\ cycles[1].decode = "ok"

----------------------------------------------------------------------------
\* The cycle of the most recent script in the message list, 0 if none.
LastScriptCycle(msgs) ==
  LET S == { i \in 1..Len(msgs) :
               msgs[i].cycle > 0 /\ IsScriptMessage(msgs[i], msgs[i].cycle) }
  IN  IF S = { } THEN 0
      ELSE msgs[CHOOSE i \in S : \A j \in S : j <= i].cycle

\* C19: there is no buffer at first; a buffer that is available belongs to
\* the latest cycle and to the most recent script in the message list; a
\* send leaves no buffer; and a source that the play control starts plays
\* the buffer of the latest cycle, never that of an earlier one.
C19_BufferNeverStale ==
  /\ audioBuffer = 0
  /\ [][ /\ audioBuffer' # 0 =>
              /\ audioBuffer' = Len(cycles')
              /\ audioBuffer' = LastScriptCycle(messages')
         /\ Len(cycles') > Len(cycles) => audioBuffer' = 0
         /\ Len(sources') > Len(sources) =>
              /\ sources'[Len(sources')].buffer = Len(cycles)
              /\ sources'[Len(sources')].buffer = LastScriptCycle(messages) ]_vars

C19_Witness ==
  /\ Len(cycles) = 2
  /\ ~InFlight(2)
  /\ cycles[2].decode = "threw"
  /\ audioBuffer = 0
  /\ ~ENABLED HandlePlayPause
  /\ \E s \in Nodes : sources[s].context = 1 /\ sources[s].state # "playing"

====
